---- MODULE Spec2Model ----
(***************************************************************************)
(* brack: the puzzle state machine (model.go), the clue extractor and the  *)
(* snapshot conversions, the two tables of the SQLite store, the calendar  *)
(* (calendar.go) and the application around them (main.go), as a state     *)
(* machine.                                                                *)
(*                                                                         *)
(* A Go string is a sequence of one-character strings; a Go map is a       *)
(* function; the model struct is the record m.                             *)
(***************************************************************************)
EXTENDS Integers, Sequences, FiniteSets, TLC

VARIABLES
    m,          \* the model struct (done, correct, incorrect, chars, state, data, txtin, w, h, storage)
    game_state, \* the game_state table: puzzle_date -> row
    puzzle_data,\* the puzzle_data table: puzzle_date -> row
    app,        \* the other fields of AppModel: mode and calendar
    last        \* the message or call handled last, and what it did (history)

vars == <<m, game_state, puzzle_data, app, last>>

----------------------------------------------------------------------------
(* Bounds of the exploration.                                              *)

\* longest value the text input is let to hold
MaxLen == 1
\* letter keystrokes counted per puzzle date
MaxChars == 2
\* incorrect guesses counted per puzzle date
MaxIncorrect == 1
\* pieces a generated template is made of
MaxParts == 3

----------------------------------------------------------------------------
(* Strings.                                                                *)

\* the characters unicode.IsLetter holds of
Letters == {"x", "X", "y", "Y", "a", "é"}

IsLetter(c) == c \in Letters

\* len(txt) of a key name: the number of its bytes in UTF-8
ByteLen(txt) ==
    CASE txt = "é" -> 2
      [] txt = "up" -> 2
      [] txt = "backspace" -> 9
      [] OTHER -> 1

\* len(txt) == 1 && unicode.IsLetter(rune(txt[0]))
IsLetterKey(txt) == ByteLen(txt) = 1 /\ IsLetter(txt)

\* simple case folding of one character, as strings.EqualFold compares
Fold(c) ==
    CASE c = "X" -> "x"
      [] c = "Y" -> "y"
      [] OTHER -> c

\* strings.EqualFold(s, t)
EqualFold(s, t) ==
    /\ Len(s) = Len(t)
    /\ \A i \in 1..Len(s) : Fold(s[i]) = Fold(t[i])

\* does sub occur in s at the 0-based offset i
MatchAt(s, sub, i) ==
    /\ i >= 0
    /\ i + Len(sub) <= Len(s)
    /\ \A j \in 1..Len(sub) : s[i + j] = sub[j]

\* strings.Index(s, sub): the 0-based offset of the first occurrence, or -1
Index(s, sub) ==
    LET hits == {i \in 0..Len(s) : MatchAt(s, sub, i)}
    IN  IF hits = {} THEN -1
        ELSE CHOOSE i \in hits : \A j \in hits : i <= j

\* strings.Contains(s, sub)
Contains(s, sub) == Index(s, sub) >= 0

\* mutant of Replace1: the last occurrence is replaced, not the first
Replace1Last(s, old, new) ==
    LET hits == {i \in 0..Len(s) : MatchAt(s, old, i)}
    IN  IF hits = {} THEN s
        ELSE LET i == CHOOSE h \in hits : \A j \in hits : j <= h
             IN  SubSeq(s, 1, i) \o new \o SubSeq(s, i + Len(old) + 1, Len(s))

\* strings.Replace(s, old, new, 1), old not empty
Replace1(s, old, new) ==
    LET i == Index(s, old)
    IN  IF i < 0 THEN s
        ELSE SubSeq(s, 1, i) \o new \o SubSeq(s, i + Len(old) + 1, Len(s))

\* "[" + q + "]"
Placeholder(q) == <<"[">> \o q \o <<"]">>

----------------------------------------------------------------------------
(* Documents (puzzledata).                                                 *)

Doc(date, puzzle, sols) ==
    [PuzzleDate |-> date, InitialPuzzle |-> puzzle, Solutions |-> sols]

NoSolutions == [k \in {} |-> <<>>]

Sol1(k, a) == [q \in {k} |-> a]

Sol2(k1, a1, k2, a2) == [q \in {k1, k2} |-> IF q = k1 THEN a1 ELSE a2]

\* the Documents the sessions of Spec are played on
Documents ==
    { \* no clue at all
      Doc("d0", <<"h", "i">>, NoSolutions),
      \* "The [capital] of France": one clue
      Doc("d1", <<"T", " ", "[", "a", "]", " ", "F">>, Sol1(<<"a">>, <<"X">>)),
      \* "[a] and [b]": two clues, different answers
      Doc("d2", <<"[", "a", "]", " ", "[", "b", "]">>,
          Sol2(<<"a">>, <<"X">>, <<"b">>, <<"Y">>)),
      \* two clues whose answers are equal up to case
      Doc("d3", <<"[", "a", "]", " ", "[", "b", "]">>,
          Sol2(<<"a">>, <<"x">>, <<"b">>, <<"X">>)),
      \* the same placeholder twice
      Doc("d4", <<"[", "a", "]", " ", "[", "a", "]">>, Sol1(<<"a">>, <<"x">>)),
      \* a nested clue: solving a reveals [bx]
      Doc("d5", <<"[", "b", "[", "a", "]", "]">>,
          Sol2(<<"a">>, <<"x">>, <<"b", "x">>, <<"y">>)),
      \* clue id a is a substring of the placeholder [ba]
      Doc("d6", <<"[", "b", "a", "]">>,
          Sol2(<<"a">>, <<"x">>, <<"b", "a">>, <<"y">>)) }

----------------------------------------------------------------------------
(* The clue extractor and the snapshot conversions.                        *)

\* mutant of getActiveQuestions: the clue id is looked for without its brackets
getActiveQuestionsById(pd, s) ==
    [k \in {q \in DOMAIN pd.Solutions : Contains(s, q)} |-> pd.Solutions[k]]

\* mutant of getActiveQuestions: every clue of the Document is answerable,
\* whether its placeholder is in the text or not
getActiveQuestionsAll(pd, s) == pd.Solutions

\* getActiveQuestions(pd, s)
getActiveQuestions(pd, s) ==
    [k \in {q \in DOMAIN pd.Solutions : Contains(s, Placeholder(q))}
        |-> pd.Solutions[k]]

\* modelToGameState(m); LastPlayed (the wall clock) is left out
modelToGameState(mm) ==
    [PuzzleDate |-> mm.data.PuzzleDate,
     State      |-> mm.state,
     Correct    |-> mm.correct,
     Incorrect  |-> mm.incorrect,
     Chars      |-> mm.chars,
     Completed  |-> mm.done]

\* mutant of applyGameState: the count of keystrokes is not restored
applyGameStateNoChars(mm, gs) ==
    [mm EXCEPT !.state = gs.State,
               !.correct = gs.Correct,
               !.incorrect = gs.Incorrect,
               !.done = gs.Completed]

\* applyGameState(&m, gs)
applyGameState(mm, gs) ==
    [mm EXCEPT !.state = gs.State,
               !.correct = gs.Correct,
               !.incorrect = gs.Incorrect,
               !.chars = gs.Chars,
               !.done = gs.Completed]

----------------------------------------------------------------------------
(* The storage client: the game_state and puzzle_data tables.              *)

\* mutant of SaveGameState: every row of the table is replaced
SaveGameStateAllRows(db, gs) ==
    [d \in DOMAIN db \cup {gs.PuzzleDate} |-> gs]

\* INSERT OR REPLACE INTO game_state: the row of gs.PuzzleDate is replaced
SaveGameState(db, gs) ==
    [d \in DOMAIN db \cup {gs.PuzzleDate} |->
        IF d = gs.PuzzleDate THEN gs ELSE db[d]]

\* GetGameState succeeds exactly when a row is selected
HasRow(db, date) == date \in DOMAIN db

\* the table after m.storage.SaveGameState(gs), whose error is dropped:
\* ok = FALSE is the Exec that fails
SaveResult(mm, db, gs, ok) ==
    IF mm.storage /= "nil" /\ ok THEN SaveGameState(db, gs) ELSE db

\* GameState{}
ZeroGameState ==
    [PuzzleDate |-> "", State |-> <<>>, Correct |-> 0, Incorrect |-> 0,
     Chars |-> 0, Completed |-> FALSE]

\* mutant of GetGameState: no row selected is not an error
GetGameStateNoError(db, date, ok) ==
    IF ~ok THEN [err |-> "failed to get game state", gs |-> ZeroGameState]
    ELSE IF HasRow(db, date) THEN [err |-> "nil", gs |-> db[date]]
    ELSE [err |-> "nil", gs |-> ZeroGameState]

\* GetGameState(puzzleDate): the GameState and the error returned; ok = FALSE
\* is the query that fails
GetGameState(db, date, ok) ==
    IF ~ok THEN [err |-> "failed to get game state", gs |-> ZeroGameState]
    ELSE IF HasRow(db, date) THEN [err |-> "nil", gs |-> db[date]]
    ELSE [err |-> "no game state found", gs |-> ZeroGameState]

\* HasGameState(puzzleDate): SELECT COUNT(*) ... count > 0
HasGameState(db, date, ok) ==
    IF ~ok THEN [has |-> FALSE, err |-> "failed to check for game state"]
    ELSE [has |-> Cardinality({d \in DOMAIN db : d = date}) > 0, err |-> "nil"]

\* json.Marshal(data.Solutions): the object of the pairs of the map
Marshal(sols) == {<<k, sols[k]>> : k \in DOMAIN sols}

\* json.Unmarshal(solutionsJSON, &data.Solutions): the map of the pairs
Unmarshal(js) ==
    [k \in {p[1] : p \in js} |-> (CHOOSE p \in js : p[1] = k)[2]]

\* the row SavePuzzleData binds to its statement
PuzzleRow(data) ==
    [puzzle_date    |-> data.PuzzleDate,
     solutions      |-> Marshal(data.Solutions),
     initial_puzzle |-> data.InitialPuzzle]

\* mutant of SavePuzzleData: INSERT OR IGNORE, the row first stored is kept
SavePuzzleDataIgnore(db, data) ==
    [d \in DOMAIN db \cup {data.PuzzleDate} |->
        IF d \in DOMAIN db THEN db[d] ELSE PuzzleRow(data)]

\* INSERT OR REPLACE INTO puzzle_data: the row of data.PuzzleDate is replaced
SavePuzzleData(db, data) ==
    [d \in DOMAIN db \cup {data.PuzzleDate} |->
        IF d = data.PuzzleDate THEN PuzzleRow(data) ELSE db[d]]

\* puzzledata{}
ZeroDoc == Doc("", <<>>, NoSolutions)

\* GetPuzzleData(puzzleDate): the puzzledata and the error returned
GetPuzzleData(db, date, ok) ==
    IF ~ok THEN [err |-> "failed to get puzzle data", data |-> ZeroDoc]
    ELSE IF date \in DOMAIN db
    THEN [err |-> "nil",
          data |-> Doc(db[date].puzzle_date, db[date].initial_puzzle,
                       Unmarshal(db[date].solutions))]
    ELSE [err |-> "no puzzle data found", data |-> ZeroDoc]

\* HasPuzzleData(puzzleDate): SELECT COUNT(*) ... count > 0
HasPuzzleData(db, date, ok) ==
    IF ~ok THEN [has |-> FALSE, err |-> "failed to check for puzzle data"]
    ELSE [has |-> Cardinality({d \in DOMAIN db : d = date}) > 0, err |-> "nil"]

\* what newModel's call of GetGameState met
ReadTag(storage, db, date, readOk) ==
    IF storage = "nil" THEN "none"
    ELSE IF ~readOk THEN "err"
    ELSE IF HasRow(db, date) THEN "ok" ELSE "absent"

\* what the step did to the store
SaveTag(mm, ok) ==
    IF mm.storage = "nil" THEN "none" ELSE IF ok THEN "ok" ELSE "err"

----------------------------------------------------------------------------
(* calendar.go: dates and the calendar component.  A time.Time at midnight *)
(* is the record of its year, month and day.                               *)

\* time.Date(y, m, d, 0, 0, 0, 0, loc)
Date(y, mo, d) == [y |-> y, mo |-> mo, d |-> d]

IsLeap(y) == (y % 4 = 0 /\ y % 100 /= 0) \/ y % 400 = 0

\* the number of days of month mo of year y
DaysIn(y, mo) ==
    IF mo = 2 THEN (IF IsLeap(y) THEN 29 ELSE 28)
    ELSE IF mo \in {4, 6, 9, 11} THEN 30 ELSE 31

\* t.AddDate(0, 0, 1)
NextDay(t) ==
    IF t.d < DaysIn(t.y, t.mo) THEN Date(t.y, t.mo, t.d + 1)
    ELSE IF t.mo < 12 THEN Date(t.y, t.mo + 1, 1)
    ELSE Date(t.y + 1, 1, 1)

\* t.AddDate(0, 0, -1)
PrevDay(t) ==
    IF t.d > 1 THEN Date(t.y, t.mo, t.d - 1)
    ELSE IF t.mo > 1 THEN Date(t.y, t.mo - 1, DaysIn(t.y, t.mo - 1))
    ELSE Date(t.y - 1, 12, 31)

\* t.AddDate(0, 0, n)
RECURSIVE AddDays(_, _)
AddDays(t, n) ==
    IF n = 0 THEN t
    ELSE IF n > 0 THEN AddDays(NextDay(t), n - 1)
    ELSE AddDays(PrevDay(t), n + 1)

\* t.After(u)
After(t, u) ==
    \/ t.y > u.y
    \/ t.y = u.y /\ t.mo > u.mo
    \/ t.y = u.y /\ t.mo = u.mo /\ t.d > u.d

\* NewCalendar(storage), today being time.Now() at midnight
NewCalendar(today) ==
    [cursor |-> today, currentDay |-> today,
     viewMonth |-> Date(today.y, today.mo, 1)]

\* c.cursor = newCursor, and the viewMonth brought to the month of the cursor
\* if c.cursor.Month() != c.viewMonth.Month()
SetCursor(c, newCursor) ==
    [c EXCEPT !.cursor = newCursor,
              !.viewMonth = IF newCursor.mo /= c.viewMonth.mo
                            THEN Date(newCursor.y, newCursor.mo, 1)
                            ELSE @]

\* mutant of moveCursorLeft: the year of the new cursor is not looked at
moveCursorLeftNoFloor(c) ==
    LET newCursor == AddDays(c.cursor, -1)
    IN  IF ~After(newCursor, c.currentDay)
        THEN SetCursor(c, newCursor) ELSE c

\* c.moveCursorLeft()
moveCursorLeft(c) ==
    LET newCursor == AddDays(c.cursor, -1)
    IN  IF ~After(newCursor, c.currentDay) /\ newCursor.y >= 2000
        THEN SetCursor(c, newCursor) ELSE c

\* c.moveCursorRight()
moveCursorRight(c) ==
    LET newCursor == AddDays(c.cursor, 1)
    IN  IF ~After(newCursor, c.currentDay)
        THEN SetCursor(c, newCursor) ELSE c

\* c.moveCursorUp()
moveCursorUp(c) ==
    LET newCursor == AddDays(c.cursor, -7)
    IN  IF ~After(newCursor, c.currentDay) /\ newCursor.y >= 2000
        THEN SetCursor(c, newCursor) ELSE c

\* c.moveCursorDown()
moveCursorDown(c) ==
    LET newCursor == AddDays(c.cursor, 7)
    IN  IF ~After(newCursor, c.currentDay)
        THEN SetCursor(c, newCursor) ELSE c

\* the day the sessions of Spec, SpecGuess, SpecStore and SpecMain run on
Today == Date(2000, 1, 2)

\* the AppModel main constructs, the flag --calendar not given
GameApp == [mode |-> "game", calendar |-> NewCalendar(Today)]

----------------------------------------------------------------------------
(* model.go: newModel.                                                     *)

\* mutant of newModel: the error of GetGameState is not looked at, and the
\* empty GameState it returns with an error is applied
newModelUnchecked(d, storage, db, readOk) ==
    LET fresh == [done      |-> FALSE,
                  correct   |-> 0,
                  incorrect |-> 0,
                  chars     |-> 0,
                  state     |-> d.InitialPuzzle,
                  data      |-> d,
                  txtin     |-> <<>>,
                  w         |-> 0,
                  h         |-> 0,
                  storage   |-> storage]
        zero  == [PuzzleDate |-> "", State |-> <<>>, Correct |-> 0,
                  Incorrect |-> 0, Chars |-> 0, Completed |-> FALSE]
    IN  IF storage = "nil" THEN fresh
        ELSE IF readOk /\ HasRow(db, d.PuzzleDate)
             THEN applyGameState(fresh, db[d.PuzzleDate])
             ELSE applyGameState(fresh, zero)

\* mutant of newModel: a snapshot that counts more correct guesses than the
\* Document has solutions is not applied
newModelValidated(d, storage, db, readOk) ==
    LET fresh == [done      |-> FALSE,
                  correct   |-> 0,
                  incorrect |-> 0,
                  chars     |-> 0,
                  state     |-> d.InitialPuzzle,
                  data      |-> d,
                  txtin     |-> <<>>,
                  w         |-> 0,
                  h         |-> 0,
                  storage   |-> storage]
    IN  IF /\ storage /= "nil" /\ readOk /\ HasRow(db, d.PuzzleDate)
           /\ db[d.PuzzleDate].Correct <= Cardinality(DOMAIN d.Solutions)
        THEN applyGameState(fresh, db[d.PuzzleDate])
        ELSE fresh

\* newModel(d, storage) over the table db; readOk = FALSE is the query that
\* fails, and GetGameState returns no error exactly when a row is found
newModel(d, storage, db, readOk) ==
    LET fresh == [done      |-> FALSE,
                  correct   |-> 0,
                  incorrect |-> 0,
                  chars     |-> 0,
                  state     |-> d.InitialPuzzle,
                  data      |-> d,
                  txtin     |-> <<>>,
                  w         |-> 0,
                  h         |-> 0,
                  storage   |-> storage]
    IN  IF storage /= "nil" /\ readOk /\ HasRow(db, d.PuzzleDate)
        THEN applyGameState(fresh, db[d.PuzzleDate])
        ELSE fresh

EmptyTable == [d \in {} |-> 0]

NoMsg == [msg |-> "init", key |-> "", in |-> <<>>, hit |-> {}, save |-> "none",
          read |-> "none", cmd |-> "nil", arg |-> "", res |-> "",
          replaced |-> FALSE, fetch |-> "none", fetches |-> 0]

\* the session of a Document that main has just fetched and stored
Init ==
    /\ game_state = EmptyTable
    /\ \E d \in Documents, storage \in {"nil", "db"} :
          /\ m = newModel(d, storage, game_state, TRUE)
          /\ puzzle_data = IF storage = "db" THEN SavePuzzleData(EmptyTable, d)
                           ELSE EmptyTable
    /\ app = GameApp
    /\ last = NoMsg

----------------------------------------------------------------------------
(* model.go: model.Update.                                                 *)

\* key names of one character (what the player types into the guess)
Runes == {"x", "X", "y", " ", "é"}

\* key names of several characters, other than enter and ctrl+c
NamedKeys == {"backspace", "up"}

\* tea.WindowSizeMsg values
Sizes == {<<80, 24>>}

\* len(m.data.Solutions)
NumSolutions(mm) == Cardinality(DOMAIN mm.data.Solutions)

\* m.txtin.Update(msg) of bubbles/textinput, cursor at the end: a rune or a
\* space is appended, backspace deletes the last character, other keys do
\* nothing to the value
txtinUpdate(value, key) ==
    IF key \in Runes THEN Append(value, key)
    ELSE IF key = "backspace" /\ value /= <<>>
         THEN SubSeq(value, 1, Len(value) - 1)
         ELSE value

\* mutant of IsEmptyInput: the check of the empty input is missing
IsEmptyInputNever(in) == FALSE

\* in == ""
IsEmptyInput(in) == in = <<>>

\* the active clues whose answer the input equals: the entries at which the
\* range loop does not continue
Matching(mm, in) ==
    LET qs == getActiveQuestions(mm.data, mm.state)
    IN  {q \in DOMAIN qs : EqualFold(in, qs[q])}

\* mutant of ApplyCorrect: the count of keystrokes starts over with the
\* cleared input
ApplyCorrectClearsChars(mm, q) ==
    [mm EXCEPT !.correct = @ + 1,
               !.chars = 0,
               !.state = Replace1(@, Placeholder(q), mm.data.Solutions[q])]

\* m.correct++ and the replacement of the question by its answer
ApplyCorrect(mm, q) ==
    [mm EXCEPT !.correct = @ + 1,
               !.state = Replace1(@, Placeholder(q), mm.data.Solutions[q])]

\* the snapshot saved after a correct guess
CorrectSnapshot(mm) ==
    [modelToGameState(mm) EXCEPT !.Completed = (mm.correct = NumSolutions(mm))]

\* mutant of Finish: done is computed anew at every correct guess
FinishRecomputed(mm) == [mm EXCEPT !.done = (mm.correct = NumSolutions(mm))]

\* "Done?": m.done = true when correct has reached len(Solutions)
Finish(mm) ==
    IF mm.correct = NumSolutions(mm) THEN [mm EXCEPT !.done = TRUE] ELSE mm

\* mutant of ApplyIncorrect: the model is marked not completed, as the
\* snapshot of an incorrect guess is
ApplyIncorrectUndone(mm) == [mm EXCEPT !.incorrect = @ + 1, !.done = FALSE]

\* m.incorrect++
ApplyIncorrect(mm) == [mm EXCEPT !.incorrect = @ + 1]

\* the snapshot saved after an incorrect guess
IncorrectSnapshot(mm) == [modelToGameState(mm) EXCEPT !.Completed = FALSE]

\* the letter branch of the default case: m.chars++
ApplyLetter(mm) == [mm EXCEPT !.chars = @ + 1]

\* mutant of DropError: a transition whose snapshot was not written is
\* taken back
RollBackOnError(mm, before, ok) ==
    IF mm.storage /= "nil" /\ ~ok THEN before ELSE mm

\* _ = m.storage.SaveGameState(gameState): the error is dropped, the model
\* mm stays as the transition made it from before
DropError(mm, before, ok) == mm

\* the program runs until an Update returns tea.Quit
Running == last.cmd = "nil"

\* case tea.WindowSizeMsg
UpdateWindowSize ==
    \E sz \in Sizes :
        /\ Running
        /\ m' = [m EXCEPT !.w = sz[1], !.h = sz[2]]
        /\ UNCHANGED <<game_state, puzzle_data, app>>
        /\ last' = [NoMsg EXCEPT !.msg = "resize"]

\* case "ctrl+c"
UpdateCtrlC ==
    /\ Running
    /\ UNCHANGED <<m, game_state, puzzle_data, app>>
    /\ last' = [NoMsg EXCEPT !.msg = "key", !.key = "ctrl+c", !.cmd = "quit"]

\* case "enter" with an empty input: return m, nil
EnterEmpty ==
    /\ Running
    /\ IsEmptyInput(m.txtin)
    /\ UNCHANGED <<m, game_state, puzzle_data, app>>
    /\ last' = [NoMsg EXCEPT !.msg = "enter"]

\* case "enter", the input equals the answer of an active clue; the range
\* over the map meets the matching entries in any order
EnterCorrect ==
    /\ Running
    /\ ~IsEmptyInput(m.txtin)
    /\ \E q \in Matching(m, m.txtin), ok \in BOOLEAN :
          LET m1 == ApplyCorrect([m EXCEPT !.txtin = <<>>], q)
          IN  /\ game_state' = SaveResult(m1, game_state, CorrectSnapshot(m1), ok)
              /\ m' = Finish(DropError(m1, [m EXCEPT !.txtin = <<>>], ok))
              /\ UNCHANGED <<puzzle_data, app>>
              /\ last' = [NoMsg EXCEPT !.msg = "enter", !.in = m.txtin,
                                       !.hit = {q}, !.save = SaveTag(m1, ok),
                                       !.cmd = IF m1.correct = NumSolutions(m1)
                                               THEN "quit" ELSE "nil"]

\* case "enter", the input equals the answer of no active clue
EnterIncorrect ==
    /\ Running
    /\ ~IsEmptyInput(m.txtin)
    /\ Matching(m, m.txtin) = {}
    /\ m.incorrect < MaxIncorrect
    /\ \E ok \in BOOLEAN :
          LET m1 == ApplyIncorrect([m EXCEPT !.txtin = <<>>])
          IN  /\ game_state' = SaveResult(m1, game_state, IncorrectSnapshot(m1), ok)
              /\ m' = DropError(m1, [m EXCEPT !.txtin = <<>>], ok)
              /\ UNCHANGED <<puzzle_data, app>>
              /\ last' = [NoMsg EXCEPT !.msg = "enter", !.in = m.txtin,
                                       !.save = SaveTag(m1, ok)]

\* default, a key name that is one letter: chars++, the snapshot, the input
UpdateLetter ==
    \E key \in Runes, ok \in BOOLEAN :
        /\ Running
        /\ IsLetterKey(key)
        /\ m.chars < MaxChars
        /\ Len(m.txtin) < MaxLen
        /\ LET m1 == ApplyLetter(m)
           IN  /\ game_state' = SaveResult(m1, game_state, modelToGameState(m1), ok)
               /\ m' = [DropError(m1, m, ok) EXCEPT !.txtin = txtinUpdate(@, key)]
               /\ UNCHANGED <<puzzle_data, app>>
               /\ last' = [NoMsg EXCEPT !.msg = "key", !.key = key,
                                        !.save = SaveTag(m1, ok)]

\* default, any other key: only the text input sees it
UpdateOtherKey ==
    \E key \in Runes \cup NamedKeys :
        /\ Running
        /\ ~IsLetterKey(key)
        /\ key \in Runes => Len(m.txtin) < MaxLen
        /\ m' = [m EXCEPT !.txtin = txtinUpdate(@, key)]
        /\ UNCHANGED <<game_state, puzzle_data, app>>
        /\ last' = [NoMsg EXCEPT !.msg = "key", !.key = key]

\* the program is started again on the same Document (after it quit, or after
\* it was ended from outside): newModel reads the store; readOk = FALSE is
\* the query that fails
NewSession ==
    \E readOk \in BOOLEAN :
        /\ m' = newModel(m.data, m.storage, game_state, readOk)
        /\ UNCHANGED <<game_state, puzzle_data, app>>
        /\ last' = [NoMsg EXCEPT !.msg = "newModel",
                                 !.read = ReadTag(m.storage, game_state,
                                                  m.data.PuzzleDate, readOk)]

Next ==
    \/ UpdateWindowSize
    \/ UpdateCtrlC
    \/ EnterEmpty
    \/ EnterCorrect
    \/ EnterIncorrect
    \/ UpdateLetter
    \/ UpdateOtherKey
    \/ NewSession

Spec == Init /\ [][Next]_vars

----------------------------------------------------------------------------
(* Guesses on every Document of a bounded universe: every template made    *)
(* of at most MaxParts pieces, every solutions map over two clue ids, and  *)
(* every input of at most MaxLen typed characters.                         *)

\* the pieces generated templates are made of
Pieces == {<<"[">>, <<"]">>, <<"[", "x", "]">>, <<"[", "b", "x", "]">>}

\* the concatenation of the pieces ps[1..n]
RECURSIVE Flatten(_, _)
Flatten(ps, n) == IF n = 0 THEN <<>> ELSE Flatten(ps, n - 1) \o ps[n]

Templates ==
    UNION {{Flatten(ps, n) : ps \in [1..n -> Pieces]} : n \in 0..MaxParts}

\* the answers of generated Documents
Answers == {<<"x">>, <<"X">>, <<"y">>}

\* the solutions maps over the clue ids x and bx
SolutionMaps ==
    UNION {[ks -> Answers] : ks \in SUBSET {<<"x">>, <<"b", "x">>}}

\* the values typed into the text input
Inputs == UNION {[1..n -> Runes] : n \in 0..MaxLen}

\* the default case of Update for one key, the snapshot aside
KeyStep(mm, key) ==
    [(IF IsLetterKey(key) THEN ApplyLetter(mm) ELSE mm)
        EXCEPT !.txtin = txtinUpdate(@, key)]

\* the model after the keys of in were typed one by one
RECURSIVE TypeKeys(_, _)
TypeKeys(mm, in) ==
    IF in = <<>> THEN mm
    ELSE KeyStep(TypeKeys(mm, SubSeq(in, 1, Len(in) - 1)), in[Len(in)])

\* a session on a generated Document in which the player has typed a guess:
\* every letter keystroke has saved its snapshot
InitGuess ==
    \E tpl \in Templates, sols \in SolutionMaps, storage \in {"nil", "db"},
       in \in Inputs :
        LET m1 == TypeKeys(newModel(Doc("d1", tpl, sols), storage, EmptyTable, TRUE), in)
        IN  /\ m = m1
            /\ puzzle_data = IF storage = "db"
                             THEN SavePuzzleData(EmptyTable, m1.data)
                             ELSE EmptyTable
            /\ game_state = IF storage = "db" /\ m1.chars > 0
                            THEN SaveGameState(EmptyTable, modelToGameState(m1))
                            ELSE EmptyTable
            /\ app = GameApp
            /\ last = IF in = <<>> THEN NoMsg
                      ELSE [NoMsg EXCEPT !.msg = "key", !.key = in[Len(in)],
                                         !.save = IF storage = "db" /\ IsLetterKey(in[Len(in)])
                                                  THEN "ok" ELSE "none"]

NextGuess ==
    \/ EnterEmpty
    \/ EnterCorrect
    \/ EnterIncorrect

SpecGuess == InitGuess /\ [][NextGuess]_vars

----------------------------------------------------------------------------
(* The storage client called directly: every sequence of puts, gets and    *)
(* existence checks on the two tables, over two dates and three records    *)
(* per date and table.                                                     *)

\* model{}: no state machine has been constructed
NoModel ==
    [done      |-> FALSE,
     correct   |-> 0,
     incorrect |-> 0,
     chars     |-> 0,
     state     |-> <<>>,
     data      |-> ZeroDoc,
     txtin     |-> <<>>,
     w         |-> 0,
     h         |-> 0,
     storage   |-> "nil"]

\* the dates the calls are made for
StoreDates == {"d1", "d2"}

\* the GameState values put: they differ in every field
StoreGameStates ==
    UNION {{[PuzzleDate |-> d, State |-> <<"[", "a", "]">>, Correct |-> 0,
             Incorrect |-> 0, Chars |-> 0, Completed |-> FALSE],
            [PuzzleDate |-> d, State |-> <<"X">>, Correct |-> 1,
             Incorrect |-> 1, Chars |-> 2, Completed |-> TRUE],
            [PuzzleDate |-> d, State |-> <<"[", "a", "]">>, Correct |-> 0,
             Incorrect |-> 1, Chars |-> 1, Completed |-> FALSE]} :
           d \in StoreDates}

\* the puzzledata values put
StoreDocs ==
    UNION {{Doc(d, <<"h", "i">>, NoSolutions),
            Doc(d, <<"[", "a", "]">>, Sol1(<<"a">>, <<"X">>)),
            Doc(d, <<"[", "a", "]", "[", "b", "]">>,
                Sol2(<<"a">>, <<"x">>, <<"b">>, <<"X">>))} :
           d \in StoreDates}

InitStore ==
    /\ m = NoModel
    /\ game_state = EmptyTable
    /\ puzzle_data = EmptyTable
    /\ app = GameApp
    /\ last = NoMsg

\* s.SaveGameState(gs); ok = FALSE is the Exec that fails
CallSaveGameState ==
    \E gs \in StoreGameStates, ok \in BOOLEAN :
        /\ game_state' = IF ok THEN SaveGameState(game_state, gs) ELSE game_state
        /\ UNCHANGED <<m, puzzle_data, app>>
        /\ last' = [NoMsg EXCEPT
                       !.msg = "SaveGameState", !.arg = gs,
                       !.res = IF ok THEN "nil" ELSE "failed to save game state",
                       !.replaced = /\ ok
                                    /\ HasRow(game_state, gs.PuzzleDate)
                                    /\ game_state[gs.PuzzleDate] /= gs]

\* s.SavePuzzleData(data)
CallSavePuzzleData ==
    \E data \in StoreDocs, ok \in BOOLEAN :
        /\ puzzle_data' = IF ok THEN SavePuzzleData(puzzle_data, data)
                          ELSE puzzle_data
        /\ UNCHANGED <<m, game_state, app>>
        /\ last' = [NoMsg EXCEPT
                       !.msg = "SavePuzzleData", !.arg = data,
                       !.res = IF ok THEN "nil" ELSE "failed to save puzzle data",
                       !.replaced = /\ ok
                                    /\ data.PuzzleDate \in DOMAIN puzzle_data
                                    /\ puzzle_data[data.PuzzleDate] /= PuzzleRow(data)]

\* s.GetGameState(date)
CallGetGameState ==
    \E date \in StoreDates, ok \in BOOLEAN :
        /\ UNCHANGED <<m, game_state, puzzle_data, app>>
        /\ last' = [NoMsg EXCEPT !.msg = "GetGameState", !.arg = date,
                                 !.res = GetGameState(game_state, date, ok),
                                 !.read = IF ok THEN "ok" ELSE "err"]

\* s.GetPuzzleData(date)
CallGetPuzzleData ==
    \E date \in StoreDates, ok \in BOOLEAN :
        /\ UNCHANGED <<m, game_state, puzzle_data, app>>
        /\ last' = [NoMsg EXCEPT !.msg = "GetPuzzleData", !.arg = date,
                                 !.res = GetPuzzleData(puzzle_data, date, ok),
                                 !.read = IF ok THEN "ok" ELSE "err"]

\* s.HasGameState(date)
CallHasGameState ==
    \E date \in StoreDates, ok \in BOOLEAN :
        /\ UNCHANGED <<m, game_state, puzzle_data, app>>
        /\ last' = [NoMsg EXCEPT !.msg = "HasGameState", !.arg = date,
                                 !.res = HasGameState(game_state, date, ok),
                                 !.read = IF ok THEN "ok" ELSE "err"]

\* s.HasPuzzleData(date)
CallHasPuzzleData ==
    \E date \in StoreDates, ok \in BOOLEAN :
        /\ UNCHANGED <<m, game_state, puzzle_data, app>>
        /\ last' = [NoMsg EXCEPT !.msg = "HasPuzzleData", !.arg = date,
                                 !.res = HasPuzzleData(puzzle_data, date, ok),
                                 !.read = IF ok THEN "ok" ELSE "err"]

NextStore ==
    \/ CallSaveGameState
    \/ CallSavePuzzleData
    \/ CallGetGameState
    \/ CallGetPuzzleData
    \/ CallHasGameState
    \/ CallHasPuzzleData

SpecStore == InitStore /\ [][NextStore]_vars

----------------------------------------------------------------------------
(* main.go: the Action of the command.  The program is started for a date, *)
(* loads the Document from the store or fetches it, and runs the session;  *)
(* it may be started again at any time.                                    *)

\* the dates the program is started for
MainDates == {"d1", "d4"}

\* the Document the remote source serves for a date
Remote(date) == CHOOSE d \in Documents : d.PuzzleDate = date

\* d.Format("2006-01-02") of the days the calendar of Today can select
Format(t) ==
    CASE t = Date(2000, 1, 1) -> "2000-01-01"
      [] t = Date(2000, 1, 2) -> "2000-01-02"
      [] OTHER -> "0000-00-00"

\* the Documents of the days of the calendar; the remote source has served
\* the one of 1 January in two versions
CalendarDocuments ==
    { Doc("2000-01-01", <<"[", "a", "]">>, Sol1(<<"a">>, <<"x">>)),
      Doc("2000-01-01", <<"[", "a", "]", "!">>, Sol1(<<"a">>, <<"x">>)),
      Doc("2000-01-02", <<"[", "a", "]">>, Sol1(<<"a">>, <<"y">>)) }

\* the Documents getPuzzleData may decode for a date when it returns no error
Served(date) ==
    IF \E d \in CalendarDocuments : d.PuzzleDate = date
    THEN {d \in CalendarDocuments : d.PuzzleDate = date}
    ELSE {Remote(date)}

\* no program is running and the store was just created
InitMain ==
    /\ m = NoModel
    /\ game_state = EmptyTable
    /\ puzzle_data = EmptyTable
    /\ app = GameApp
    /\ last = [NoMsg EXCEPT !.cmd = "exit"]

\* mutant of StartupFetchFailed: the Action goes on with the empty Document
\* that getPuzzleData returned with its error
StartupFetchIgnored(date) ==
    /\ m' = newModel(ZeroDoc, "db", game_state, TRUE)
    /\ puzzle_data' = SavePuzzleData(puzzle_data, ZeroDoc)
    /\ UNCHANGED game_state
    /\ app' = GameApp
    /\ last' = [NoMsg EXCEPT !.msg = "main", !.arg = date, !.fetches = 1,
                             !.fetch = "err", !.res = "nil"]

\* getPuzzleData(d) returned an error: return err
StartupFetchFailed(date) ==
    /\ m' = NoModel
    /\ UNCHANGED <<game_state, puzzle_data>>
    /\ app' = GameApp
    /\ last' = [NoMsg EXCEPT !.msg = "main", !.arg = date, !.fetches = 1,
                             !.fetch = "err", !.res = "fetch failed",
                             !.cmd = "exit"]

\* the Document is in the store: it is loaded, and the session constructed;
\* getOk and readOk = FALSE are the queries that fail
StartupLoad(date) ==
    \E getOk, readOk \in BOOLEAN :
        LET got == GetPuzzleData(puzzle_data, date, getOk)
        IN  IF got.err /= "nil"
            THEN /\ m' = NoModel
                 /\ UNCHANGED <<game_state, puzzle_data>>
                 /\ app' = GameApp
                 /\ last' = [NoMsg EXCEPT
                                !.msg = "main", !.arg = date,
                                !.res = "failed to load puzzle from storage",
                                !.cmd = "exit"]
            ELSE /\ m' = newModel(got.data, "db", game_state, readOk)
                 /\ UNCHANGED <<game_state, puzzle_data>>
                 /\ app' = GameApp
                 /\ last' = [NoMsg EXCEPT
                                !.msg = "main", !.arg = date, !.res = "nil",
                                !.read = ReadTag("db", game_state, date, readOk)]

\* the Document was fetched: it is saved (saveOk = FALSE is the warning) and
\* the session constructed
StartupFetched(date) ==
    \E doc \in Served(date), saveOk, readOk \in BOOLEAN :
        /\ m' = newModel(doc, "db", game_state, readOk)
        /\ puzzle_data' = IF saveOk THEN SavePuzzleData(puzzle_data, doc)
                          ELSE puzzle_data
        /\ UNCHANGED game_state
        /\ app' = GameApp
        /\ last' = [NoMsg EXCEPT
                       !.msg = "main", !.arg = date, !.res = "nil", !.fetches = 1,
                       !.fetch = "ok",
                       !.read = ReadTag("db", game_state, date, readOk)]

\* the Action of the command for the date argument, which makes a new
\* AppModel in game mode; hasOk = FALSE is the existence check that fails
\* (its error is dropped), fetchOk = FALSE the fetch that fails
StartupOn(date) ==
    \E hasOk \in BOOLEAN :
        IF HasPuzzleData(puzzle_data, date, hasOk).has
        THEN StartupLoad(date)
        ELSE \E fetchOk \in BOOLEAN :
                IF fetchOk THEN StartupFetched(date)
                ELSE StartupFetchFailed(date)

Startup == \E date \in MainDates : StartupOn(date)

NextMain ==
    \/ Startup
    \/ UpdateCtrlC
    \/ EnterEmpty
    \/ EnterCorrect
    \/ EnterIncorrect
    \/ UpdateLetter

SpecMain == InitMain /\ [][NextMain]_vars

----------------------------------------------------------------------------
(* calendar.go: Calendar.Update, as AppModel.Update calls it in calendar   *)
(* mode.                                                                   *)

\* the days the program is started on
CalTodays == {Date(2000, 1, 2), Date(2000, 3, 3), Date(2001, 1, 9)}

\* the calendar is open on the day the program was started
InitCal ==
    /\ m = NoModel
    /\ game_state = EmptyTable
    /\ puzzle_data = EmptyTable
    /\ \E today \in CalTodays :
          app = [mode |-> "calendar", calendar |-> NewCalendar(today)]
    /\ last = NoMsg

\* the step of a cursor key: the calendar becomes c
CalendarKey(key, c) ==
    /\ Running
    /\ app.mode = "calendar"
    /\ app' = [app EXCEPT !.calendar = c]
    /\ UNCHANGED <<m, game_state, puzzle_data>>
    /\ last' = [NoMsg EXCEPT !.msg = "key", !.key = key,
                             !.res = IF c = app.calendar THEN "stay" ELSE "moved"]

\* case "left", "h"
CalendarLeft ==
    \E key \in {"left", "h"} : CalendarKey(key, moveCursorLeft(app.calendar))

\* case "right", "l"
CalendarRight ==
    \E key \in {"right", "l"} : CalendarKey(key, moveCursorRight(app.calendar))

\* case "up", "k"
CalendarUp ==
    \E key \in {"up", "k"} : CalendarKey(key, moveCursorUp(app.calendar))

\* case "down", "j"
CalendarDown ==
    \E key \in {"down", "j"} : CalendarKey(key, moveCursorDown(app.calendar))

NextCal ==
    \/ CalendarLeft
    \/ CalendarRight
    \/ CalendarUp
    \/ CalendarDown

SpecCal == InitCal /\ [][NextCal]_vars

----------------------------------------------------------------------------
(* main.go: AppModel.Update.  The program is started on Today for a day of *)
(* the calendar; the player types the letter x, guesses, switches between  *)
(* the game and the calendar and selects days.                             *)

\* the letters typed into the guess
AppTyped == {"x"}

\* the program after its Action fetched and stored the puzzle of Today
InitApp ==
    \E doc \in Served(Format(Today)) :
        /\ puzzle_data = SavePuzzleData(EmptyTable, doc)
        /\ game_state = EmptyTable
        /\ m = newModel(doc, "db", EmptyTable, TRUE)
        /\ app = GameApp
        /\ last = [NoMsg EXCEPT !.arg = Format(Today), !.fetch = "ok", !.fetches = 1,
                                !.read = "absent"]

\* case "ctrl+c", "q": return a, tea.Quit
AppQuit ==
    \E key \in {"ctrl+c", "q"} :
        /\ Running
        /\ UNCHANGED <<m, game_state, puzzle_data, app>>
        /\ last' = [NoMsg EXCEPT !.msg = "key", !.key = key, !.cmd = "quit"]

\* case "tab", "c": the mode is toggled
AppToggle ==
    \E key \in {"tab", "c"} :
        /\ Running
        /\ app' = [app EXCEPT !.mode = IF @ = "game" THEN "calendar" ELSE "game"]
        /\ UNCHANGED <<m, game_state, puzzle_data>>
        /\ last' = [NoMsg EXCEPT !.msg = "key", !.key = key]

\* a.model = newModel(puzzle, a.storage); a.mode = ModeGame
Selected(key, dateStr, puzzle, table, fetch, readOk) ==
    /\ puzzle_data' = table
    /\ m' = newModel(puzzle, "db", game_state, readOk)
    /\ app' = [app EXCEPT !.mode = "game"]
    /\ UNCHANGED game_state
    /\ last' = [NoMsg EXCEPT
                   !.msg = "key", !.key = key, !.arg = dateStr,
                   !.fetch = fetch, !.fetches = IF fetch = "none" THEN 0 ELSE 1,
                   !.read = ReadTag("db", game_state, puzzle.PuzzleDate, readOk)]

\* calendar mode, "enter" or " ": the puzzle of the selected date is loaded
\* when HasPuzzleData reports it (the error of GetPuzzleData is dropped and
\* its empty puzzledata used), else fetched (the error of getPuzzleData is
\* dropped and its empty puzzledata used) and saved (the error dropped).
\* Oks: whether the queries and the request succeed
AppSelectOn(Oks) ==
    \E key \in {"enter", " "}, hasOk, readOk \in Oks :
        LET dateStr == Format(app.calendar.cursor)
        IN  /\ Running
            /\ app.mode = "calendar"
            /\ IF HasPuzzleData(puzzle_data, dateStr, hasOk).has
               THEN \E getOk \in Oks :
                        Selected(key, dateStr,
                                 GetPuzzleData(puzzle_data, dateStr, getOk).data,
                                 puzzle_data, "none", readOk)
               ELSE \E fetchOk, saveOk \in Oks :
                    \E puzzle \in IF fetchOk THEN Served(dateStr) ELSE {ZeroDoc} :
                        Selected(key, dateStr, puzzle,
                                 IF saveOk THEN SavePuzzleData(puzzle_data, puzzle)
                                 ELSE puzzle_data,
                                 IF fetchOk THEN "ok" ELSE "err", readOk)

AppSelect == AppSelectOn(BOOLEAN)

\* calendar mode, a key the calendar has no case for
AppCalendarIgnored ==
    \E key \in AppTyped :
        /\ Running
        /\ app.mode = "calendar"
        /\ UNCHANGED <<m, game_state, puzzle_data, app>>
        /\ last' = [NoMsg EXCEPT !.msg = "key", !.key = key]

\* game mode: the key is forwarded to a.model.Update
AppGameLetter == app.mode = "game" /\ UpdateLetter /\ last'.key \in AppTyped

AppGameEnterCorrect == app.mode = "game" /\ EnterCorrect

AppGameEnterIncorrect == app.mode = "game" /\ EnterIncorrect

\* the program run on Today, the Document queries and the request failing
\* at any step, the player typing and moving through the calendar
NextApp ==
    \/ AppQuit
    \/ AppToggle
    \/ AppSelect
    \/ AppCalendarIgnored
    \/ CalendarLeft
    \/ CalendarRight
    \/ CalendarUp
    \/ CalendarDown
    \/ AppGameLetter

SpecApp == InitApp /\ [][NextApp]_vars

\* the program run on Today, the player switching between the puzzles of
\* the two days of the calendar and guessing, the Document queries and the
\* request succeeding
AppSelectServed == AppSelectOn({TRUE})

NextSwitch ==
    \/ AppToggle
    \/ AppSelectServed
    \/ CalendarLeft
    \/ CalendarRight
    \/ AppGameLetter
    \/ AppGameEnterCorrect
    \/ AppGameEnterIncorrect

SpecSwitch == InitApp /\ [][NextSwitch]_vars

----------------------------------------------------------------------------
(* The claims.  Their vocabulary is defined here from the text of the      *)
(* specification, apart from the operators of the model.                   *)

\* the upper-case form of a character
Upper(c) ==
    CASE c = "x" -> "X"
      [] c = "y" -> "Y"
      [] OTHER -> c

\* s and t are equal, case apart
SameIgnoringCase(s, t) ==
    /\ Len(s) = Len(t)
    /\ \A i \in 1..Len(s) : Upper(s[i]) = Upper(t[i])

\* sub is a substring of s
Occurs(sub, s) ==
    \E pre \in 0..Len(s) :
        /\ pre + Len(sub) <= Len(s)
        /\ SubSeq(s, pre + 1, pre + Len(sub)) = sub

\* the clue ids whose placeholder is in the state of mm and whose answer
\* the input equals, case apart
ActiveMatches(mm, in) ==
    {k \in DOMAIN mm.data.Solutions :
        /\ Occurs(<<"[">> \o k \o <<"]">>, mm.state)
        /\ SameIgnoringCase(in, mm.data.Solutions[k])}

\* s2 is s with the first occurrence of ph replaced by a
FirstReplaced(s, ph, a, s2) ==
    \E pre \in 0..Len(s) :
        /\ pre + Len(ph) <= Len(s)
        /\ SubSeq(s, pre + 1, pre + Len(ph)) = ph
        /\ ~Occurs(ph, SubSeq(s, 1, pre + Len(ph) - 1))
        /\ s2 = SubSeq(s, 1, pre) \o a \o SubSeq(s, pre + Len(ph) + 1, Len(s))

\* the step handles the enter key
EnterStep == last'.msg = "enter"

\* C1: in a not-done state, submitting a non-empty input that equals, case
\* apart, the answer of at least one active clue increases correct by
\* exactly 1, leaves incorrect and chars unchanged, and replaces the first
\* occurrence of the placeholder of one matching active clue by the answer
\* as solutions spells it; the rest of state is unchanged.
C1_CorrectGuess ==
    [][(/\ EnterStep
        /\ ~m.done
        /\ m.txtin /= <<>>
        /\ ActiveMatches(m, m.txtin) /= {})
       => /\ m'.correct = m.correct + 1
          /\ m'.incorrect = m.incorrect
          /\ m'.chars = m.chars
          /\ \E k \in ActiveMatches(m, m.txtin) :
                FirstReplaced(m.state, <<"[">> \o k \o <<"]">>,
                              m.data.Solutions[k], m'.state)]_vars

\* C1 witness: the player typed X, the answers of the two active clues x and
\* bx are x and X, the placeholder of x was replaced by the answer x and bx
\* is still active
C1_Witness ==
    /\ last.msg = "enter"
    /\ last.in = <<"X">>
    /\ last.hit = {<<"x">>}
    /\ m.correct = 1
    /\ DOMAIN m.data.Solutions = {<<"x">>, <<"b", "x">>}
    /\ m.data.Solutions[<<"x">>] = <<"x">>
    /\ m.data.Solutions[<<"b", "x">>] = <<"X">>
    /\ m.data.InitialPuzzle = <<"[", "b", "x", "]", "[", "x", "]", "[", "x", "]">>
    /\ m.state = <<"[", "b", "x", "]", "x", "[", "x", "]">>

\* C2: submitting a non-empty input that equals, case apart, the answer of
\* no active clue increases incorrect by exactly 1 and leaves state,
\* correct, chars and done unchanged.
C2_IncorrectGuess ==
    [][(/\ EnterStep
        /\ m.txtin /= <<>>
        /\ ActiveMatches(m, m.txtin) = {})
       => /\ m'.incorrect = m.incorrect + 1
          /\ m'.state = m.state
          /\ m'.correct = m.correct
          /\ m'.chars = m.chars
          /\ m'.done = m.done]_vars

\* C2 witness: an incorrect guess made on a puzzle that was resumed done
C2_Witness ==
    /\ last.msg = "enter"
    /\ last.in /= <<>>
    /\ last.hit = {}
    /\ m.incorrect = 1
    /\ m.done

\* the step constructs a new state machine
NewModelStep == last'.msg = "newModel"

\* C3: in every reachable state done is true exactly when correct equals the
\* number of entries in solutions, and done turns true in the transition in
\* which correct reaches that number.
C3_DoneIffAllCorrect ==
    /\ [](m.done <=> (m.correct = Cardinality(DOMAIN m.data.Solutions)))
    /\ [][(~NewModelStep /\ ~m.done /\ m'.done)
          => /\ m.correct /= Cardinality(DOMAIN m.data.Solutions)
             /\ m'.correct = Cardinality(DOMAIN m.data.Solutions)]_vars

\* C4: once done is true for a state machine it stays true after any guess,
\* keystroke or resize event applied to that state machine.
C4_DoneIsTerminal ==
    [][(m.done /\ ~NewModelStep) => m'.done]_vars

\* C4 witness: a correct guess was accepted by a state machine that was done
\* before it (correct is past the number of solutions) and is still done
C4_Witness ==
    /\ m.done
    /\ last.msg = "enter"
    /\ last.hit /= {}
    /\ m.correct > Cardinality(DOMAIN m.data.Solutions)

\* C5: whenever correct equals the number of solutions, state contains the
\* placeholder of no clue id of solutions.
C5_NoPlaceholderWhenDone ==
    (m.correct = Cardinality(DOMAIN m.data.Solutions))
        => \A k \in DOMAIN m.data.Solutions :
              ~Occurs(<<"[">> \o k \o <<"]">>, m.state)

\* C6: a state machine constructed from a Document when no snapshot is stored
\* for its date, or when no store is attached, starts not done, with correct =
\* incorrect = chars = 0 and state = initialPuzzle.
C6_FreshStart ==
    (/\ last.msg \in {"init", "newModel"}
     /\ \/ m.storage = "nil"
        \/ m.data.PuzzleDate \notin DOMAIN game_state)
    => /\ ~m.done
       /\ m.correct = 0
       /\ m.incorrect = 0
       /\ m.chars = 0
       /\ m.state = m.data.InitialPuzzle

\* C6 witness: a state machine constructed with a store attached that holds
\* no snapshot for the date
C6_Witness ==
    /\ last.msg = "newModel"
    /\ m.storage = "db"
    /\ m.data.PuzzleDate \notin DOMAIN game_state
    /\ m.data.InitialPuzzle = <<"[", "a", "]", " ", "[", "b", "]">>

\* the fields of the state machine a guess may change
Progress(mm) == <<mm.state, mm.correct, mm.incorrect, mm.chars, mm.done>>

\* C7: submitting the empty string changes none of state, correct,
\* incorrect, chars and done, and writes no snapshot.
C7_EmptyIsNoOp ==
    [][(EnterStep /\ m.txtin = <<>>)
       => /\ Progress(m') = Progress(m)
          /\ game_state' = game_state
          /\ last'.save = "none"]_vars

\* C7 witness: enter was pressed on an empty input in a session that has a
\* snapshot in the store
C7_Witness ==
    /\ last.msg = "enter"
    /\ last.in = <<>>
    /\ last.hit = {}
    /\ m.txtin = <<>>
    /\ m.incorrect = 0
    /\ m.data.PuzzleDate \in DOMAIN game_state

\* the input is made of spaces only
IsBlank(in) == in /= <<>> /\ \A i \in 1..Len(in) : in[i] = " "

\* C8: submitting a blank input is ignored like the empty string: no counter
\* changes, state is unchanged and no snapshot is written.
C8_BlankIsNoOp ==
    [][(EnterStep /\ IsBlank(m.txtin))
       => /\ Progress(m') = Progress(m)
          /\ game_state' = game_state
          /\ last'.save = "none"]_vars

\* the pairs (k, solutions[k]) whose placeholder is a substring of s
ActivePairs(pd, s) ==
    [k \in {q \in DOMAIN pd.Solutions : Occurs(<<"[">> \o q \o <<"]">>, s)}
        |-> pd.Solutions[k]]

\* the number of occurrences of sub in s
Occurrences(sub, s) ==
    Cardinality({pre \in 0..Len(s) :
                    /\ pre + Len(sub) <= Len(s)
                    /\ SubSeq(s, pre + 1, pre + Len(sub)) = sub})

\* the step answered clue k, whose placeholder occurred once
AnsweredSingle(k) ==
    /\ EnterStep
    /\ last'.hit = {k}
    /\ Occurrences(<<"[">> \o k \o <<"]">>, m.state) = 1

\* C9 (as claimed): getActiveQuestions returns exactly the pairs whose
\* placeholder is a substring of the template, and a clue whose placeholder
\* occurred once is no longer returned after it has been answered.
C9_ExtractorAsClaimed ==
    /\ [](getActiveQuestions(m.data, m.state) = ActivePairs(m.data, m.state))
    /\ [][\A k \in DOMAIN m.data.Solutions :
            AnsweredSingle(k)
                => k \notin DOMAIN getActiveQuestions(m'.data, m'.state)]_vars

\* C9 (amended): getActiveQuestions returns exactly the pairs whose
\* placeholder is a substring of the template; a clue whose placeholder
\* occurred once is no longer returned after it has been answered, provided
\* its answer contains no bracket and is not a substring of its clue id.
C9_Extractor ==
    /\ [](getActiveQuestions(m.data, m.state) = ActivePairs(m.data, m.state))
    /\ [][\A k \in DOMAIN m.data.Solutions :
            (/\ AnsweredSingle(k)
             /\ ~Occurs(<<"[">>, m.data.Solutions[k])
             /\ ~Occurs(<<"]">>, m.data.Solutions[k])
             /\ ~Occurs(m.data.Solutions[k], k))
                => k \notin DOMAIN getActiveQuestions(m'.data, m'.state)]_vars

\* C9 witness: over "[x][bx]" clue x was answered; the extractor returns only
\* bx over "X[bx]", although x is a substring of the placeholder [bx]
C9_Witness ==
    /\ last.msg = "enter"
    /\ last.hit = {<<"x">>}
    /\ m.data.InitialPuzzle = <<"[", "x", "]", "[", "b", "x", "]">>
    /\ m.state = <<"X", "[", "b", "x", "]">>
    /\ DOMAIN m.data.Solutions = {<<"x">>, <<"b", "x">>}
    /\ DOMAIN getActiveQuestions(m.data, m.state) = {<<"b", "x">>}

\* C10: for the same state, solutions and input, the state a guess results
\* in is always the same, also when the input equals the answers of several
\* active clues.
C10_Deterministic ==
    \A q1, q2 \in Matching(m, m.txtin) :
        ApplyCorrect(m, q1).state = ApplyCorrect(m, q2).state

\* a state machine newly made for the Document of mm, nothing restored
FreshFor(mm) == newModel(mm.data, "nil", EmptyTable, TRUE)

\* C11: capturing a snapshot of a state machine with modelToGameState and
\* applying it with applyGameState to a new state machine for the same
\* Document yields the same state, correct, incorrect, chars and done.
C11_RoundTrip ==
    LET restored == applyGameState(FreshFor(m), modelToGameState(m))
    IN  /\ restored.state = m.state
        /\ restored.correct = m.correct
        /\ restored.incorrect = m.incorrect
        /\ restored.chars = m.chars
        /\ restored.done = m.done

\* C11 witness: a state machine that differs from a new one in every field
\* the snapshot carries
C11_Witness ==
    /\ m.state /= FreshFor(m).state
    /\ m.correct > 0
    /\ m.incorrect > 0
    /\ m.chars > 0
    /\ m.done
    /\ applyGameState(FreshFor(m), modelToGameState(m)).state = m.state

\* a state machine constructed now from the store, the read succeeding,
\* has the state, correct, incorrect, chars and done of m
Mirrored ==
    Progress(newModel(m.data, m.storage, game_state, TRUE)) = Progress(m)

\* C12: with a store attached whose writes succeed, after every guess or
\* keystroke that writes a snapshot, and after every later event that
\* writes none, a state machine constructed anew for the same Document has
\* the state, correct, incorrect, chars and done the previous one had after
\* its last event.
C12_ResumeMirrors ==
    [][(/\ ~NewModelStep
        /\ m.storage = "db"
        /\ \/ last'.save = "ok"
           \/ last'.save = "none" /\ Mirrored)
       => Mirrored']_vars

\* the snapshot row of the puzzle date of mm in table db carries the state,
\* correct, incorrect and chars of mm
RowCarries(db, mm) ==
    /\ mm.data.PuzzleDate \in DOMAIN db
    /\ db[mm.data.PuzzleDate].State = mm.state
    /\ db[mm.data.PuzzleDate].Correct = mm.correct
    /\ db[mm.data.PuzzleDate].Incorrect = mm.incorrect
    /\ db[mm.data.PuzzleDate].Chars = mm.chars

\* the step wrote one snapshot, for the puzzle date of m and no other date
WroteOne ==
    /\ last'.save = "ok"
    /\ DOMAIN game_state' = DOMAIN game_state \cup {m.data.PuzzleDate}
    /\ \A d \in DOMAIN game_state :
          d /= m.data.PuzzleDate => game_state'[d] = game_state[d]

\* C13: with a store attached whose write succeeds, every non-empty guess
\* writes one snapshot for the puzzle date, carrying the state, correct,
\* incorrect and chars after the transition; on a match its completed flag
\* equals done after the transition, and on no match it is false.
C13_GuessSnapshot ==
    [][(/\ EnterStep
        /\ m.txtin /= <<>>
        /\ m.storage = "db"
        /\ last'.save /= "err")
       => /\ WroteOne
          /\ RowCarries(game_state', m')
          /\ game_state'[m.data.PuzzleDate].Completed =
                IF ActiveMatches(m, m.txtin) /= {} THEN m'.done ELSE FALSE]_vars

\* the key names that are a single alphabetic character
AlphabeticChars == {"x", "X", "y", "é"}

\* the step handles a key that is neither enter nor ctrl+c
KeyStepOf(k) == last'.msg = "key" /\ last'.key = k

\* C14: a key event that is a single alphabetic character increases chars
\* by exactly 1, leaves state, correct, incorrect and done unchanged and
\* writes one snapshot (store attached, write succeeding); any other key
\* event that is not enter or ctrl+c leaves chars and all other fields
\* unchanged and writes no snapshot.
C14_KeystrokeObservation ==
    [][\A k \in Runes \cup NamedKeys :
        KeyStepOf(k) =>
            IF k \in AlphabeticChars
            THEN /\ m'.chars = m.chars + 1
                 /\ m'.state = m.state
                 /\ m'.correct = m.correct
                 /\ m'.incorrect = m.incorrect
                 /\ m'.done = m.done
                 /\ (m.storage = "db" /\ last'.save /= "err")
                       => /\ WroteOne
                          /\ RowCarries(game_state', m')
            ELSE /\ Progress(m') = Progress(m)
                 /\ game_state' = game_state
                 /\ last'.save = "none"]_vars

\* C15: over the events applied to one state machine, correct, incorrect
\* and chars never decrease, and a single event increases at most one of
\* them, by exactly 1.
C15_CountersMonotonic ==
    [][~NewModelStep
       => LET dc == m'.correct - m.correct
              di == m'.incorrect - m.incorrect
              dk == m'.chars - m.chars
          IN  /\ dc \in {0, 1}
              /\ di \in {0, 1}
              /\ dk \in {0, 1}
              /\ dc + di + dk <= 1]_vars

\* C15 witness: one state machine has counted a keystroke, an incorrect
\* guess and then a correct guess
C15_Witness ==
    /\ last.msg = "enter"
    /\ last.hit /= {}
    /\ m.correct = 1
    /\ m.incorrect = 1
    /\ m.chars = 2
    /\ m.data.PuzzleDate \notin DOMAIN game_state

\* the in-memory transition of the step is the one of its event: a counted
\* keystroke, a correct guess (with the done flag set when correct reaches
\* the number of solutions) or an incorrect guess
TransitionApplied ==
    IF last'.msg = "key"
    THEN /\ m'.chars = m.chars + 1
         /\ m'.state = m.state
         /\ m'.correct = m.correct
         /\ m'.incorrect = m.incorrect
         /\ m'.done = m.done
    ELSE IF ActiveMatches(m, m.txtin) /= {}
    THEN /\ m'.correct = m.correct + 1
         /\ \E k \in ActiveMatches(m, m.txtin) :
               FirstReplaced(m.state, <<"[">> \o k \o <<"]">>,
                             m.data.Solutions[k], m'.state)
         /\ m'.incorrect = m.incorrect
         /\ m'.chars = m.chars
         /\ m'.done = (m.done \/ m'.correct = Cardinality(DOMAIN m.data.Solutions))
    ELSE /\ m'.incorrect = m.incorrect + 1
         /\ m'.state = m.state
         /\ m'.correct = m.correct
         /\ m'.chars = m.chars
         /\ m'.done = m.done

\* C18: when SaveGameState returns an error during a guess or keystroke,
\* the in-memory transition (counter increment, placeholder replacement,
\* done flag) is applied as when the write succeeds, the store is left as it
\* was, and the session goes on unless the guess completed the puzzle.
C18_FailedWriteNoRollback ==
    [][(last'.save = "err")
       => /\ TransitionApplied
          /\ game_state' = game_state
          /\ last'.cmd = "quit" => m'.done]_vars

\* C18 witness: every write of the session failed, and the last guess was
\* correct and completed the puzzle
C18_Witness ==
    /\ last.save = "err"
    /\ last.msg = "enter"
    /\ last.hit /= {}
    /\ m.done
    /\ m.chars > 0
    /\ m.data.PuzzleDate \notin DOMAIN game_state

\* C19: when the snapshot for the puzzle date is absent from the store or
\* reading it fails, constructing the state machine yields a new session
\* (state = initialPuzzle, all counters zero, not done); when a snapshot is
\* present and read, the state machine starts with exactly the snapshot's
\* state, correct, incorrect, chars and completed (as done), whatever the
\* Document.
C19_ConstructionFromStore ==
    [][(NewModelStep /\ m'.storage = "db")
       => /\ last'.cmd = "nil"
          /\ m'.data = m.data
          /\ IF m.data.PuzzleDate \in DOMAIN game_state /\ last'.read /= "err"
             THEN LET gs == game_state[m.data.PuzzleDate]
                  IN  /\ m'.state = gs.State
                      /\ m'.correct = gs.Correct
                      /\ m'.incorrect = gs.Incorrect
                      /\ m'.chars = gs.Chars
                      /\ m'.done = gs.Completed
             ELSE /\ m'.state = m.data.InitialPuzzle
                  /\ m'.correct = 0
                  /\ m'.incorrect = 0
                  /\ m'.chars = 0
                  /\ ~m'.done]_vars

\* C19 witness: a state machine constructed from a snapshot that counts more
\* correct guesses than the Document has solutions and is not completed
C19_Witness ==
    /\ last.msg = "newModel"
    /\ last.read = "ok"
    /\ m.correct > Cardinality(DOMAIN m.data.Solutions)
    /\ ~m.done

\* the number of records table db holds whose key field f is k
RecordsOf(db, f, k) == Cardinality({d \in DOMAIN db : db[d][f] = k})

\* the step is a put into game_state that returned no error
PutGameStateStep == last'.msg = "SaveGameState" /\ last'.res = "nil"

\* the step is a put into puzzle_data that returned no error
PutPuzzleDataStep == last'.msg = "SavePuzzleData" /\ last'.res = "nil"

\* C16: after any sequence of SaveGameState and SavePuzzleData calls each
\* table holds at most one record per puzzleDate; a get for the key of a put
\* returns the fields of the record put, a get for another key returns what
\* it returned before the put, and no other call changes a table.
C16_Upsert ==
    /\ [](\A k \in StoreDates :
            /\ RecordsOf(game_state, "PuzzleDate", k) <= 1
            /\ RecordsOf(puzzle_data, "puzzle_date", k) <= 1)
    /\ [][PutGameStateStep
          => /\ GetGameState(game_state', last'.arg.PuzzleDate, TRUE)
                   = [err |-> "nil", gs |-> last'.arg]
             /\ \A k \in StoreDates \ {last'.arg.PuzzleDate} :
                   GetGameState(game_state', k, TRUE)
                       = GetGameState(game_state, k, TRUE)
             /\ puzzle_data' = puzzle_data]_vars
    /\ [][PutPuzzleDataStep
          => /\ GetPuzzleData(puzzle_data', last'.arg.PuzzleDate, TRUE)
                   = [err |-> "nil", data |-> last'.arg]
             /\ \A k \in StoreDates \ {last'.arg.PuzzleDate} :
                   GetPuzzleData(puzzle_data', k, TRUE)
                       = GetPuzzleData(puzzle_data, k, TRUE)
             /\ game_state' = game_state]_vars
    /\ [][(~PutGameStateStep /\ ~PutPuzzleDataStep)
          => /\ game_state' = game_state
             /\ puzzle_data' = puzzle_data]_vars

\* C16 witness: a Document with two solutions was put over another record
\* of its date while both tables hold a record of the other date
C16_Witness ==
    /\ last.msg = "SavePuzzleData"
    /\ last.replaced
    /\ last.arg.PuzzleDate = "d1"
    /\ Cardinality(DOMAIN last.arg.Solutions) = 2
    /\ GetPuzzleData(puzzle_data, "d1", TRUE).data = last.arg
    /\ "d2" \in DOMAIN puzzle_data
    /\ DOMAIN game_state = {"d1", "d2"}

\* the step is the call f for a key that table db holds no record of
AbsentLookup(f, db) == last'.msg = f /\ last'.arg \notin DOMAIN db

\* the step left both tables as they were
StoreUnchanged == game_state' = game_state /\ puzzle_data' = puzzle_data

\* C17: for a key no record was put for, GetGameState and GetPuzzleData
\* return an error (the not-found one when the query is answered) and an
\* empty record, HasGameState and HasPuzzleData whose query is answered
\* return false with no error, and none of the four changes the store; for
\* every key, Has* returns true exactly when the matching Get* succeeds.
C17_AbsentLookups ==
    /\ [][AbsentLookup("GetGameState", game_state)
          => /\ last'.res.err /= "nil"
             /\ last'.read = "ok" => last'.res.err = "no game state found"
             /\ last'.res.gs = [PuzzleDate |-> "", State |-> <<>>, Correct |-> 0,
                                Incorrect |-> 0, Chars |-> 0, Completed |-> FALSE]
             /\ StoreUnchanged]_vars
    /\ [][AbsentLookup("GetPuzzleData", puzzle_data)
          => /\ last'.res.err /= "nil"
             /\ last'.read = "ok" => last'.res.err = "no puzzle data found"
             /\ last'.res.data.PuzzleDate = ""
             /\ last'.res.data.InitialPuzzle = <<>>
             /\ DOMAIN last'.res.data.Solutions = {}
             /\ StoreUnchanged]_vars
    /\ [][(AbsentLookup("HasGameState", game_state) /\ last'.read = "ok")
          => /\ last'.res = [has |-> FALSE, err |-> "nil"]
             /\ StoreUnchanged]_vars
    /\ [][(AbsentLookup("HasPuzzleData", puzzle_data) /\ last'.read = "ok")
          => /\ last'.res = [has |-> FALSE, err |-> "nil"]
             /\ StoreUnchanged]_vars
    /\ [](\A k \in StoreDates :
            /\ HasGameState(game_state, k, TRUE).has
                  <=> GetGameState(game_state, k, TRUE).err = "nil"
            /\ HasPuzzleData(puzzle_data, k, TRUE).has
                  <=> GetPuzzleData(puzzle_data, k, TRUE).err = "nil")

\* C17 witness: GetPuzzleData was called for a date that has a snapshot but
\* no Document, while the other date has a Document
C17_Witness ==
    /\ last.msg = "GetPuzzleData"
    /\ last.arg = "d2"
    /\ last.res.err = "no puzzle data found"
    /\ last.res.data.PuzzleDate = ""
    /\ DOMAIN puzzle_data = {"d1"}
    /\ "d2" \in DOMAIN game_state

\* C20: at startup, when the store has no Document for the requested date
\* and the remote fetch fails, the invocation ends with the fetch error: no
\* state machine is constructed, no Document and no snapshot is written to
\* the store, and the fetch is made once.
C20_StartupFetchError ==
    [][(/\ last'.msg = "main"
        /\ last'.arg \notin DOMAIN puzzle_data
        /\ last'.fetch = "err")
       => /\ last'.cmd = "exit"
          /\ last'.res = "fetch failed"
          /\ m' = [done |-> FALSE, correct |-> 0, incorrect |-> 0, chars |-> 0,
                   state |-> <<>>,
                   data |-> [PuzzleDate |-> "", InitialPuzzle |-> <<>>,
                             Solutions |-> <<>>],
                   txtin |-> <<>>, w |-> 0, h |-> 0, storage |-> "nil"]
          /\ puzzle_data' = puzzle_data
          /\ game_state' = game_state
          /\ last'.fetches = 1]_vars

\* C20 witness: the program was started for a date whose Document the store
\* lacks, the fetch failed, and the store holds the Document and a snapshot
\* of the other date
C20_Witness ==
    /\ last.msg = "main"
    /\ last.fetch = "err"
    /\ last.cmd = "exit"
    /\ last.arg = "d4"
    /\ DOMAIN puzzle_data = {"d1"}
    /\ DOMAIN game_state = {"d1"}
    /\ m.data.PuzzleDate = ""

\* the step submits exactly the answer of clue k
SubmitsAnswerOf(k) ==
    /\ EnterStep
    /\ m.txtin /= <<>>
    /\ m.txtin = m.data.Solutions[k]

\* the placeholder of clue k is a substring of the state of mm
Present(k, mm) == Occurs(<<"[">> \o k \o <<"]">>, mm.state)

\* the step counted an incorrect guess and left state and correct unchanged
CountedIncorrect ==
    /\ m'.incorrect = m.incorrect + 1
    /\ m'.state = m.state
    /\ m'.correct = m.correct

\* C21 (as claimed): submitting the exact answer of a clue whose placeholder
\* is not a substring of the state is treated as an incorrect guess, and the
\* same input is accepted as correct when the placeholder is present.
C21_AnswerableAsClaimed ==
    [][\A k \in DOMAIN m.data.Solutions :
        /\ (SubmitsAnswerOf(k) /\ ~Present(k, m)) => CountedIncorrect
        /\ (SubmitsAnswerOf(k) /\ Present(k, m))
              => m'.correct = m.correct + 1]_vars

\* C21 (amended): submitting the exact answer of a clue whose placeholder is
\* not a substring of the state is treated as an incorrect guess, provided
\* the input equals, case apart, the answer of no clue whose placeholder is
\* present; the same input is accepted as correct when the placeholder is
\* present.
C21_Answerable ==
    [][\A k \in DOMAIN m.data.Solutions :
        /\ (/\ SubmitsAnswerOf(k)
            /\ ~Present(k, m)
            /\ ActiveMatches(m, m.txtin) = {}) => CountedIncorrect
        /\ (SubmitsAnswerOf(k) /\ Present(k, m))
              => m'.correct = m.correct + 1]_vars

\* C21 witness: over "[b[a]]" the answer y of clue bx was submitted while
\* only [a] was present, and was counted incorrect
C21_Witness ==
    /\ last.msg = "enter"
    /\ last.in = <<"y">>
    /\ last.hit = {}
    /\ m.data.InitialPuzzle = <<"[", "b", "[", "a", "]", "]">>
    /\ m.state = m.data.InitialPuzzle
    /\ m.incorrect = 1
    /\ m.correct = 0

\* C22: once the store holds a snapshot with completed = true for a puzzle
\* date, every snapshot written for that date by an event of the session
\* that completed the puzzle, or of a session resumed from the snapshot
\* (either way a state machine that is done), also has completed = true.
C22_CompletionSticky ==
    [][(/\ ~NewModelStep
        /\ m.done
        /\ m.data.PuzzleDate \in DOMAIN game_state
        /\ game_state[m.data.PuzzleDate].Completed)
       => /\ m.data.PuzzleDate \in DOMAIN game_state'
          /\ game_state'[m.data.PuzzleDate].Completed]_vars

\* the days a cursor key moves the cursor by
DaysOf(key) ==
    CASE key \in {"left", "h"} -> -1
      [] key \in {"right", "l"} -> 1
      [] key \in {"up", "k"} -> -7
      [] key \in {"down", "j"} -> 7

\* the date t is not after today and not before the year 2000
InRange(t, today) == ~After(t, today) /\ t.y >= 2000

\* C27: after any sequence of left/right/up/down moves starting from today
\* the selected date is never after today and never before the year 2000; a
\* move that would leave this range leaves the cursor and the viewed month
\* unchanged, any other move puts the cursor on the day moved to, and after
\* every move the viewed month is the first day of the month and year that
\* contain the cursor.
C27_CursorBounds ==
    /\ [](InRange(app.calendar.cursor, app.calendar.currentDay))
    /\ [](app.calendar.viewMonth
             = [y |-> app.calendar.cursor.y, mo |-> app.calendar.cursor.mo,
                d |-> 1])
    /\ [][\A key \in {"left", "h", "right", "l", "up", "k", "down", "j"} :
            (last'.msg = "key" /\ last'.key = key)
                => LET target == AddDays(app.calendar.cursor, DaysOf(key))
                   IN  IF InRange(target, app.calendar.currentDay)
                       THEN app'.calendar.cursor = target
                       ELSE app'.calendar = app.calendar]_vars

\* C27 witness: started on 9 January 2001, the cursor was moved back to
\* 1 January 2000 and a further move up was refused
C27_Witness ==
    /\ app.calendar.currentDay = Date(2001, 1, 9)
    /\ app.calendar.cursor = Date(2000, 1, 1)
    /\ app.calendar.viewMonth = Date(2000, 1, 1)
    /\ last.key = "up"
    /\ last.res = "stay"

\* a step of AppModel.Update that selected a date in the calendar
SelectStep ==
    /\ app.mode = "calendar"
    /\ last'.msg = "key"
    /\ last'.key \in {"enter", " "}

\* C23: when a date is selected in the calendar whose Document is not in the
\* store and the fetch fails, no Document record is written and the session
\* is not replaced by a session on the empty Document
C23_FailedSelection ==
    [][(SelectStep /\ ~HasRow(puzzle_data, last'.arg) /\ last'.fetch = "err")
          => (puzzle_data' = puzzle_data /\ m'.data # ZeroDoc)]_vars

\* the single alphabetic characters typed in the application
AppLetters == AppTyped \cup {"q", "c"}

\* C24: in game mode every key that is a single alphabetic character is
\* forwarded to the puzzle state machine: it is appended to the guess being
\* typed and increases chars by 1, and the application consumes no letter
\* (it neither quits nor leaves game mode)
C24_LettersForwarded ==
    [][(app.mode = "game" /\ last'.msg = "key" /\ last'.key \in AppLetters)
          => /\ m'.chars = m.chars + 1
             /\ m'.txtin = Append(m.txtin, last'.key)
             /\ app' = app
             /\ last'.cmd = "nil"]_vars

\* C25: Documents are cached once: a Document record, once stored for a
\* date, stays in the store and never changes, whatever is done (a stored
\* Document is loaded, never fetched again and rewritten)
C25_StoredOnce ==
    [][\A date \in DOMAIN puzzle_data :
          /\ HasRow(puzzle_data', date)
          /\ puzzle_data'[date] = puzzle_data[date]]_vars

\* a guess or a keystroke on the puzzle state machine of the application
GameStep ==
    \/ last'.msg = "enter"
    \/ app.mode = "game" /\ last'.msg = "key" /\ last'.key \in AppTyped

\* C26: a guess or a keystroke on the state machine of puzzle date d writes
\* at most the snapshot record keyed d: the snapshot records of every other
\* date and all Document records are unchanged, also after the puzzle was
\* switched through the calendar
C26_PerDateIsolation ==
    [][GameStep =>
          /\ puzzle_data' = puzzle_data
          /\ DOMAIN game_state' \subseteq DOMAIN game_state \cup {m.data.PuzzleDate}
          /\ \A date \in DOMAIN game_state \ {m.data.PuzzleDate} :
                /\ HasRow(game_state', date)
                /\ game_state'[date] = game_state[date]]_vars

\* a guess was written for the date selected in the calendar while the store
\* holds the snapshot of the other date and the Documents of both
C26_Witness ==
    /\ last.msg = "enter"
    /\ last.save = "ok"
    /\ m.data.PuzzleDate = Format(PrevDay(Today))
    /\ game_state[m.data.PuzzleDate].Incorrect + game_state[m.data.PuzzleDate].Correct > 0
    /\ HasRow(game_state, Format(Today))
    /\ game_state[Format(Today)].Chars > 0
    /\ DOMAIN puzzle_data = {Format(Today), Format(PrevDay(Today))}

====
